---- MODULE Spec2Model ----
(***************************************************************************)
(* Smart Parking Lot System: ParkingLotService (check-in / check-out under *)
(* the service mutex), ParkingSpotManager (allocation / release under the  *)
(* spot-manager mutex), FeeCalculator, ParkingLotRepository and the domain *)
(* models ParkingSpot and ParkingTicket.                                   *)
(*                                                                         *)
(* Strings that the code compares or builds (spot ids, ticket ids) are     *)
(* sequences of one-character strings.  Optional fields (exitTime, fee,    *)
(* currentVehicleLicense) are sequences of length 0 (undefined) or 1.      *)
(* Money is in cents, time in milliseconds as Date.getTime() gives it.     *)
(***************************************************************************)
EXTENDS Integers, Sequences, FiniteSets, TLC

\* ------------------------------------------------------------------ bounds
\* number of concurrent callers of the service / the spot manager
NumTasks == 2
\* tickets that may be issued before check-ins stop being invoked
MaxTickets == 2
\* direct allocateSpot calls that may select a spot before they stop being invoked
MaxAllocations == 2
\* the latest reading of the clock, in milliseconds after the first (an hour
\* and a half)
MaxClock == 5400000
\* the longest stay calculateFee is asked to price, in whole hours
MaxFeeHours == 4

\* milliseconds per hour, the divisor of getDuration
MsPerHour == 3600000

Tasks == 1 .. NumTasks

\* ------------------------------------------------------------- enumerations
VehicleType == {"MOTORCYCLE", "CAR", "BUS"}

SpotType == {"MOTORCYCLE", "COMPACT", "LARGE"}

\* optional values: undefined, or a defined value
Undefined == << >>

Def(x) == << x >>

IsDefined(o) == o # << >>

\* ------------------------------------------------------------------ strings
\* collation order of the characters that occur in identifiers
CharOrder == << "0", "1", "2", "3", "4", "5", "6", "7", "8", "9", "C", "L", "M", "T" >>

CharRank(c) == CHOOSE i \in 1 .. Len(CharOrder) : CharOrder[i] = c

\* String(n) for a non-negative integer: its decimal digits
RECURSIVE NumberToString(_)
NumberToString(n) ==
    IF n < 10 THEN << CharOrder[n + 1] >>
    ELSE Append(NumberToString(n \div 10), CharOrder[(n % 10) + 1])

\* s.padStart(width, c)
RECURSIVE PadStart(_, _, _)
PadStart(s, width, c) ==
    IF Len(s) >= width THEN s ELSE PadStart(<< c >> \o s, width, c)

\* a.localeCompare(b): negative, zero or positive
RECURSIVE LocaleCompare(_, _)
LocaleCompare(a, b) ==
    IF a = << >> /\ b = << >> THEN 0
    ELSE IF a = << >> THEN -1
    ELSE IF b = << >> THEN 1
    ELSE IF Head(a) # Head(b) THEN CharRank(Head(a)) - CharRank(Head(b))
    ELSE LocaleCompare(Tail(a), Tail(b))

\* ------------------------------------------------------------------ vehicles
Vehicle(licensePlate, type) == [licensePlate |-> licensePlate, type |-> type]

\* the vehicles that callers present
Vehicles ==
    { Vehicle("MC-001", "MOTORCYCLE"), Vehicle("CAR-001", "CAR"), Vehicle("BUS-001", "BUS") }

LicensePlates == { v.licensePlate : v \in Vehicles }

\* -------------------------------------------------------------- ParkingSpot
ParkingSpot(id, floor, spotType) ==
    [id |-> id, floor |-> floor, spotType |-> spotType,
     isAvailable |-> TRUE, currentVehicleLicense |-> Undefined]

\* canFit whose COMPACT case accepts every vehicle
canFit_CompactFitsAll(spot, vehicleType) ==
    CASE spot.spotType = "MOTORCYCLE" -> vehicleType = "MOTORCYCLE"
      [] spot.spotType = "COMPACT" -> TRUE
      [] spot.spotType = "LARGE" -> TRUE
      [] OTHER -> FALSE

canFit(spot, vehicleType) ==
    CASE spot.spotType = "MOTORCYCLE" -> vehicleType = "MOTORCYCLE"
      [] spot.spotType = "COMPACT" -> vehicleType = "MOTORCYCLE" \/ vehicleType = "CAR"
      [] spot.spotType = "LARGE" -> TRUE
      [] OTHER -> FALSE

\* occupy() throws when the spot is not available
occupyThrows(spot) == ~spot.isAvailable

\* occupy that records the vehicle but leaves the spot available
occupy_StaysAvailable(spot, vehicleLicense) ==
    [spot EXCEPT !.currentVehicleLicense = Def(vehicleLicense)]

\* occupy that takes the spot and does not record the vehicle
occupy_NoOccupant(spot, vehicleLicense) == [spot EXCEPT !.isAvailable = FALSE]

occupy(spot, vehicleLicense) ==
    [spot EXCEPT !.isAvailable = FALSE, !.currentVehicleLicense = Def(vehicleLicense)]

\* release that clears the occupant and leaves the spot unavailable
release_StaysOccupied(spot) == [spot EXCEPT !.currentVehicleLicense = Undefined]

release(spot) ==
    [spot EXCEPT !.isAvailable = TRUE, !.currentVehicleLicense = Undefined]

\* --------------------------------------------------- ParkingLotRepository
\* A Map is the sequence of its values in insertion order; the key of a spot
\* is its id, the key of a ticket its ticketId.

\* position of key id in the map, 0 when absent
IndexOf(map, id) ==
    IF \E i \in 1 .. Len(map) : map[i].id = id
    THEN CHOOSE i \in 1 .. Len(map) : map[i].id = id
    ELSE 0

\* Map.set: a new key is appended, an existing key keeps its position
addSpot(map, spot) ==
    IF IndexOf(map, spot.id) = 0 THEN Append(map, spot)
    ELSE [map EXCEPT ![IndexOf(map, spot.id)] = spot]

\* getSpot(spotId): the position of the spot, 0 for undefined
getSpot(map, spotId) == IndexOf(map, spotId)

getAllSpots(map) == map

\* getAvailableSpots without the filter
getAvailableSpots_All(map) == getAllSpots(map)

getAvailableSpots(map) == SelectSeq(getAllSpots(map), LAMBDA spot : spot.isAvailable)

\* ------------------------------------------------------------ ParkingTicket
\* The spot of a ticket is the spot object it was issued for, named by its id.
ParkingTicket(ticketId, vehicle, spotId, entryTime) ==
    [ticketId |-> ticketId, vehicle |-> vehicle, spot |-> spotId,
     entryTime |-> entryTime, exitTime |-> Undefined, fee |-> Undefined]

isActive(ticket) == ticket.exitTime = Undefined

\* complete() throws when the ticket is not active
completeThrows(ticket) == ~isActive(ticket)

\* complete that sets the exit time and forgets the fee
complete_NoFee(ticket, exitTime, fee) == [ticket EXCEPT !.exitTime = Def(exitTime)]

complete(ticket, exitTime, fee) ==
    [ticket EXCEPT !.exitTime = Def(exitTime), !.fee = Def(fee)]

\* getDuration() in milliseconds; the division by MsPerHour is in Ceil
getDuration(ticket, clock) ==
    (IF IsDefined(ticket.exitTime) THEN ticket.exitTime[1] ELSE clock) - ticket.entryTime

\* position of the ticket with key ticketId in the tickets map, 0 when absent
getTicket(map, ticketId) ==
    IF \E i \in 1 .. Len(map) : map[i].ticketId = ticketId
    THEN CHOOSE i \in 1 .. Len(map) : map[i].ticketId = ticketId
    ELSE 0

\* tickets.set(ticket.ticketId, ticket)
addTicketToMap(map, ticket) ==
    IF getTicket(map, ticket.ticketId) = 0 THEN Append(map, ticket)
    ELSE [map EXCEPT ![getTicket(map, ticket.ticketId)] = ticket]

\* addTicket that stores the ticket and leaves the index alone
addTicketToIndex_Skip(index, ticket) == index

\* the activeTicketsByVehicle index after addTicket(ticket)
addTicketToIndex(index, ticket) ==
    IF isActive(ticket)
    THEN [p \in DOMAIN index \cup {ticket.vehicle.licensePlate} |->
            IF p = ticket.vehicle.licensePlate THEN ticket.ticketId ELSE index[p]]
    ELSE index

\* getActiveTicketByVehicle that looks the plate up among the ticket ids
getActiveTicketByVehicle_WrongKey(index, licensePlate) ==
    IF \E p \in DOMAIN index : index[p] = licensePlate THEN Def(licensePlate) ELSE Undefined

\* getActiveTicketByVehicle(licensePlate): the ticketId, Undefined when absent
getActiveTicketByVehicle(index, licensePlate) ==
    IF licensePlate \in DOMAIN index THEN Def(index[licensePlate]) ELSE Undefined

\* completeTicket that leaves the index entry in place
completeTicket_KeepsEntry(map, index, ticketId) == index

\* the activeTicketsByVehicle index after completeTicket(ticketId)
completeTicket(map, index, ticketId) ==
    IF getTicket(map, ticketId) # 0
    THEN [p \in DOMAIN index \ {map[getTicket(map, ticketId)].vehicle.licensePlate} |->
            index[p]]
    ELSE index

getActiveTickets(map) == SelectSeq(map, isActive)

\* ------------------------------------------------------------ FeeCalculator
ParkingRate(baseFee, hourlyRate) == [baseFee |-> baseFee, hourlyRate |-> hourlyRate]

\* the rates the constructor registers when none are given, in cents
DefaultRates ==
    [vt \in VehicleType |->
        CASE vt = "MOTORCYCLE" -> ParkingRate(200, 100)
          [] vt = "CAR" -> ParkingRate(500, 250)
          [] vt = "BUS" -> ParkingRate(1000, 500)]

\* a rounding that drops the partial hour
Ceil_Truncates(durationMs) == durationMs \div MsPerHour

\* Math.ceil(ms / MsPerHour)
Ceil(durationMs) == -((-durationMs) \div MsPerHour)

\* calculateFee throws when no rate is registered for the vehicle type
calculateFeeThrows(rateMap, vehicleType) == vehicleType \notin DOMAIN rateMap

\* a calculateFee that takes the last started hour as free
calculateFee_DropsAnHour(rateMap, vehicleType, durationMs) ==
    LET rate == rateMap[vehicleType]
        hours == Ceil(durationMs)
    IN  IF hours <= 1 THEN rate.baseFee
        ELSE rate.baseFee + ((hours - 2) * rate.hourlyRate)

calculateFee(rateMap, vehicleType, durationMs) ==
    LET rate == rateMap[vehicleType]
        hours == Ceil(durationMs)
    IN  IF hours <= 1 THEN rate.baseFee
        ELSE rate.baseFee + ((hours - 1) * rate.hourlyRate)

\* -------------------------------------------------------- ParkingSpotManager
\* a comparator that orders by spot id alone
SpotCompare_IdOnly(a, b) == LocaleCompare(a.id, b.id)

\* the comparator of allocateSpot: lower floors first, then by spot id
SpotCompare(a, b) ==
    IF a.floor # b.floor THEN a.floor - b.floor ELSE LocaleCompare(a.id, b.id)

\* Array.prototype.sort with SpotCompare (a stable sort), by insertion
RECURSIVE InsertSpot(_, _)
InsertSpot(sorted, spot) ==
    IF sorted = << >> THEN << spot >>
    ELSE IF SpotCompare(sorted[Len(sorted)], spot) <= 0 THEN Append(sorted, spot)
    ELSE Append(InsertSpot(SubSeq(sorted, 1, Len(sorted) - 1), spot), sorted[Len(sorted)])

RECURSIVE SortSpots(_)
SortSpots(seq) ==
    IF seq = << >> THEN << >>
    ELSE InsertSpot(SortSpots(SubSeq(seq, 1, Len(seq) - 1)), seq[Len(seq)])

\* the availableSpots array of allocateSpot
CandidateSpots(map, vehicleType) ==
    SortSpots(SelectSeq(getAvailableSpots(map), LAMBDA spot : canFit(spot, vehicleType)))

\* a hasAvailableSpot that does not ask whether the spot fits
hasAvailableSpot_AnySpot(map, vehicleType) == Len(getAvailableSpots(map)) > 0

\* ParkingSpotManager.hasAvailableSpot
hasAvailableSpot(map, vehicleType) ==
    \E i \in 1 .. Len(getAvailableSpots(map)) : canFit(getAvailableSpots(map)[i], vehicleType)

\* the value of a SpotType member, character by character
SpotTypeLabel(spotType) ==
    CASE spotType = "MOTORCYCLE" -> << "M", "O", "T", "O", "R", "C", "Y", "C", "L", "E" >>
      [] spotType = "COMPACT" -> << "C", "O", "M", "P", "A", "C", "T" >>
      [] spotType = "LARGE" -> << "L", "A", "R", "G", "E" >>

\* the key of summaryMap: `${spot.floor}-${spot.spotType}`
SummaryKey(floor, spotType) == NumberToString(floor) \o << "-" >> \o SpotTypeLabel(spotType)

\* where summaryMap holds key, 0 when it does not
SummaryIndex(summaryMap, key) ==
    IF \E i \in 1 .. Len(summaryMap) : summaryMap[i].key = key
    THEN CHOOSE i \in 1 .. Len(summaryMap) : summaryMap[i].key = key
    ELSE 0

AvailabilitySummary(floor, spotType, available, total) ==
    [floor |-> floor, spotType |-> spotType, available |-> available, total |-> total]

\* the forEach of getAvailability: summaryMap, in insertion order, after
\* the spots of spotSeq have been counted
RECURSIVE Summarize(_, _)
Summarize(summaryMap, spotSeq) ==
    IF spotSeq = << >> THEN summaryMap
    ELSE LET spot == Head(spotSeq)
             key == SummaryKey(spot.floor, spot.spotType)
             withKey == IF SummaryIndex(summaryMap, key) = 0
                        THEN Append(summaryMap,
                                    [key |-> key,
                                     summary |-> AvailabilitySummary(spot.floor, spot.spotType, 0, 0)])
                        ELSE summaryMap
             i == SummaryIndex(withKey, key)
             counted == [withKey EXCEPT ![i].summary =
                            [@ EXCEPT !.total = @ + 1,
                                      !.available = IF spot.isAvailable THEN @ + 1 ELSE @]]
         IN  Summarize(counted, Tail(spotSeq))

\* a comparator that orders the summaries by capacity class alone
SummaryCompare_TypeOnly(a, b) ==
    LocaleCompare(SpotTypeLabel(a.spotType), SpotTypeLabel(b.spotType))

\* the comparator of getAvailability: by floor, then by the label of the type
SummaryCompare(a, b) ==
    IF a.floor # b.floor THEN a.floor - b.floor
    ELSE LocaleCompare(SpotTypeLabel(a.spotType), SpotTypeLabel(b.spotType))

\* Array.prototype.sort with SummaryCompare (a stable sort), by insertion
RECURSIVE InsertSummary(_, _)
InsertSummary(sorted, summary) ==
    IF sorted = << >> THEN << summary >>
    ELSE IF SummaryCompare(sorted[Len(sorted)], summary) <= 0 THEN Append(sorted, summary)
    ELSE Append(InsertSummary(SubSeq(sorted, 1, Len(sorted) - 1), summary), sorted[Len(sorted)])

RECURSIVE SortSummaries(_)
SortSummaries(seq) ==
    IF seq = << >> THEN << >>
    ELSE InsertSummary(SortSummaries(SubSeq(seq, 1, Len(seq) - 1)), seq[Len(seq)])

\* ParkingSpotManager.getAvailability
getAvailability(map) ==
    LET summaryMap == Summarize(<< >>, getAllSpots(map))
    IN  SortSummaries([i \in 1 .. Len(summaryMap) |-> summaryMap[i].summary])

\* ------------------------------------------------------ initializeParkingLot
\* one of the three inner loops: count spots of one type on one floor, with
\* ids prefix + spotIdCounter++
RECURSIVE AddSpots(_, _, _, _, _, _)
AddSpots(map, prefix, floor, spotType, count, spotIdCounter) ==
    IF count = 0 THEN map
    ELSE AddSpots(addSpot(map, ParkingSpot(<< prefix >> \o NumberToString(spotIdCounter),
                                           floor, spotType)),
                  prefix, floor, spotType, count - 1, spotIdCounter + 1)

\* the outer loop over the floors
RECURSIVE AddFloors(_, _, _, _, _)
AddFloors(map, floor, floors, spotsPerFloor, spotIdCounter) ==
    IF floor > floors THEN map
    ELSE LET m == AddSpots(map, "M", floor, "MOTORCYCLE",
                           spotsPerFloor.MOTORCYCLE, spotIdCounter)
             c == AddSpots(m, "C", floor, "COMPACT", spotsPerFloor.COMPACT,
                           spotIdCounter + spotsPerFloor.MOTORCYCLE)
             l == AddSpots(c, "L", floor, "LARGE", spotsPerFloor.LARGE,
                           spotIdCounter + spotsPerFloor.MOTORCYCLE + spotsPerFloor.COMPACT)
         IN  AddFloors(l, floor + 1, floors, spotsPerFloor,
                       spotIdCounter + spotsPerFloor.MOTORCYCLE + spotsPerFloor.COMPACT
                           + spotsPerFloor.LARGE)

initializeParkingLot(map, floors, spotsPerFloor) ==
    AddFloors(map, 1, floors, spotsPerFloor, 1)

\* a generateTicketId that ignores the counter: every id is T000001
generateTicketId_Constant(counter) == << "T" >> \o PadStart(NumberToString(1), 6, "0")

\* `T${String(ticketCounter).padStart(6, '0')}`
generateTicketId(counter) == << "T" >> \o PadStart(NumberToString(counter), 6, "0")

\* -------------------------------------------------------------------- Mutex
\* async-mutex: a lock with a FIFO queue of waiters.  acquire() takes a free
\* lock at once and queues otherwise; release() hands the lock to the head of
\* the queue, or frees it.
Mutex == [locked |-> FALSE, queue |-> << >>]

MutexAcquire(m, t) ==
    IF m.locked THEN [m EXCEPT !.queue = Append(@, t)] ELSE [m EXCEPT !.locked = TRUE]

MutexRelease(m) ==
    IF m.queue # << >> THEN [m EXCEPT !.queue = Tail(@)] ELSE [m EXCEPT !.locked = FALSE]

\* an acquire that does not wait for the holder
HoldsAfterAcquire_NoWait(h, m, name, who) == [h EXCEPT ![who] = @ \cup {name}]

\* the locks each task holds once `who` has asked mutex m (named name) for the lock
HoldsAfterAcquire(h, m, name, who) ==
    IF m.locked THEN h ELSE [h EXCEPT ![who] = @ \cup {name}]

\* the locks each task holds once `who` has released mutex m (named name)
HoldsAfterRelease(h, m, name, who) ==
    [t \in DOMAIN h |->
        IF t = who THEN h[t] \ {name}
        ELSE IF m.queue # << >> /\ t = Head(m.queue) THEN h[t] \cup {name}
        ELSE h[t]]

\* -------------------------------------------------------------------- state
VARIABLES
    spots,                    \* repository.spots
    tickets,                  \* repository.tickets
    activeTicketsByVehicle,   \* repository.activeTicketsByVehicle: plate -> ticketId
    ticketCounter,            \* ParkingLotService.ticketCounter
    rates,                    \* FeeCalculator.rates
    now,                      \* the last reading of the clock by new Date()
    mutex,                    \* ParkingLotService.mutex
    spotMutex,                \* ParkingSpotManager.mutex
    holds,                    \* the locks each task's runExclusive frames hold
    pc,                       \* where each task is in its call
    call,                     \* the call each task is making, with its arguments
    frame,                    \* the locals of the call across its awaits
    result,                   \* what the call in flight of each task will return or throw
    allocLog,                 \* history: the spots allocateSpot selected, in order
    observed                  \* what the last synchronous call was given, and returned or logged

vars ==
    << spots, tickets, activeTicketsByVehicle, ticketCounter, rates, now, mutex, spotMutex,
       holds, pc, call, frame, result, allocLog, observed >>

\* the lots that initializeParkingLot is asked to build: two floors with a
\* motorcycle and a compact spot each (M1 C2 | M3 C4), and a single large spot
LotConfigs ==
    { [floors |-> 2, spotsPerFloor |-> [MOTORCYCLE |-> 1, COMPACT |-> 1, LARGE |-> 0]],
      [floors |-> 1, spotsPerFloor |-> [MOTORCYCLE |-> 0, COMPACT |-> 0, LARGE |-> 1]] }

\* the lots the spot manager is called on directly: those, and a floor whose
\* ids reach two digits (M1, C2 .. C8, L9, L10)
AllocateLotConfigs ==
    LotConfigs \cup
    { [floors |-> 1, spotsPerFloor |-> [MOTORCYCLE |-> 1, COMPACT |-> 7, LARGE |-> 2]] }

NoCall == [op |-> "none", licensePlate |-> "", vehicleType |-> "", spotId |-> << >>]

NoFrame == [spot |-> Undefined, ticket |-> Undefined, error |-> ""]

NoResult == [kind |-> "pending", ticketId |-> << >>, error |-> ""]

TicketResult(ticketId) == [NoResult EXCEPT !.kind = "ticket", !.ticketId = ticketId]

NullResult == [NoResult EXCEPT !.kind = "null"]

ErrorResult(error) == [NoResult EXCEPT !.kind = "error", !.error = error]

\* no read has returned yet
NoObservation ==
    [op |-> "none", vehicleType |-> "", availability |-> << >>, hasCapacity |-> FALSE,
     tickets |-> << >>, durationMs |-> 0, fee |-> << >>, error |-> "",
     config |-> << >>, totalSpots |-> 0,
     \* history: whether the spot manager's mutex was locked when the read ran
     locked |-> FALSE]

\* the constructors, then one initializeParkingLot call
InitLot(configs) ==
    /\ \E cfg \in configs :
          spots = initializeParkingLot(<< >>, cfg.floors, cfg.spotsPerFloor)
    /\ tickets = << >>
    /\ activeTicketsByVehicle = [p \in {} |-> << >>]
    /\ ticketCounter = 1
    /\ rates = DefaultRates
    /\ now = 0
    /\ mutex = Mutex
    /\ spotMutex = Mutex
    /\ holds = [t \in Tasks |-> {}]
    /\ pc = [t \in Tasks |-> "idle"]
    /\ call = [t \in Tasks |-> NoCall]
    /\ frame = [t \in Tasks |-> NoFrame]
    /\ result = [t \in Tasks |-> NoResult]
    /\ allocLog = << >>
    /\ observed = NoObservation

Init == InitLot(LotConfigs)

InitAllocate == InitLot(AllocateLotConfigs)

\* -------------------------------------------------------------------- clock
\* what new Date() may read: the clock never runs backwards
ClockReadings == { c \in {now, MaxClock} : c >= now }

\* ------------------------------------------------ ParkingLotService.checkIn
\* check-ins in flight
CheckInsInFlight == { t \in Tasks : pc[t] # "idle" /\ call[t].op = "checkInVehicle" }

\* checkInVehicle(vehicle) is called: runExclusive asks for the service mutex
CallCheckIn(t, vehicle) ==
    /\ pc[t] = "idle"
    /\ (ticketCounter - 1) + Cardinality(CheckInsInFlight) < MaxTickets
    /\ call' = [call EXCEPT ![t] = [NoCall EXCEPT !.op = "checkInVehicle",
                                       !.licensePlate = vehicle.licensePlate,
                                       !.vehicleType = vehicle.type]]
    /\ mutex' = MutexAcquire(mutex, t)
    /\ holds' = HoldsAfterAcquire(holds, mutex, "service", t)
    /\ pc' = [pc EXCEPT ![t] = "checkIn:lock"]
    /\ frame' = [frame EXCEPT ![t] = NoFrame]
    /\ result' = [result EXCEPT ![t] = NoResult]
    /\ UNCHANGED << spots, tickets, activeTicketsByVehicle, ticketCounter, rates, now,
                    spotMutex, allocLog, observed >>

\* a check-in that gives the service mutex back before it calls allocateSpot
CheckInLocked_UnlocksEarly(t) ==
    /\ pc[t] = "checkIn:lock"
    /\ "service" \in holds[t]
    /\ IF IsDefined(getActiveTicketByVehicle(activeTicketsByVehicle, call[t].licensePlate))
       THEN /\ result' = [result EXCEPT ![t] = ErrorResult("AlreadyParked")]
            /\ pc' = [pc EXCEPT ![t] = "service:unlock"]
            /\ UNCHANGED << mutex, spotMutex, holds >>
       ELSE /\ mutex' = MutexRelease(mutex)
            /\ spotMutex' = MutexAcquire(spotMutex, t)
            /\ holds' = HoldsAfterAcquire(HoldsAfterRelease(holds, mutex, "service", t),
                                          spotMutex, "spotManager", t)
            /\ pc' = [pc EXCEPT ![t] = "allocateSpot:lock"]
            /\ UNCHANGED result
    /\ UNCHANGED << spots, tickets, activeTicketsByVehicle, ticketCounter, rates, now,
                    call, frame, allocLog, observed >>

\* the callback of checkInVehicle up to its await: the already-parked check,
\* then the call of allocateSpot, whose runExclusive asks for the spot mutex
CheckInLocked(t) ==
    /\ pc[t] = "checkIn:lock"
    /\ "service" \in holds[t]
    /\ IF IsDefined(getActiveTicketByVehicle(activeTicketsByVehicle, call[t].licensePlate))
       THEN /\ result' = [result EXCEPT ![t] = ErrorResult("AlreadyParked")]
            /\ pc' = [pc EXCEPT ![t] = "service:unlock"]
            /\ UNCHANGED << spotMutex, holds >>
       ELSE /\ spotMutex' = MutexAcquire(spotMutex, t)
            /\ holds' = HoldsAfterAcquire(holds, spotMutex, "spotManager", t)
            /\ pc' = [pc EXCEPT ![t] = "allocateSpot:lock"]
            /\ UNCHANGED result
    /\ UNCHANGED << spots, tickets, activeTicketsByVehicle, ticketCounter, rates, now,
                    mutex, call, frame, allocLog, observed >>

\* the callback of checkInVehicle after its await: null, or the new ticket
CheckInAllocated(t) ==
    /\ pc[t] = "checkIn:allocated"
    /\ IF frame[t].error = "" /\ IsDefined(frame[t].spot)
       THEN now' \in ClockReadings
       ELSE now' = now
    /\ IF frame[t].error # ""
       THEN /\ result' = [result EXCEPT ![t] = ErrorResult(frame[t].error)]
            /\ UNCHANGED << tickets, activeTicketsByVehicle, ticketCounter >>
       ELSE IF ~IsDefined(frame[t].spot)
       THEN /\ result' = [result EXCEPT ![t] = NullResult]
            /\ UNCHANGED << tickets, activeTicketsByVehicle, ticketCounter >>
       ELSE LET ticketId == generateTicketId(ticketCounter)
                ticket == ParkingTicket(ticketId,
                                        Vehicle(call[t].licensePlate, call[t].vehicleType),
                                        frame[t].spot[1], now')
            IN  /\ ticketCounter' = ticketCounter + 1
                /\ tickets' = addTicketToMap(tickets, ticket)
                /\ activeTicketsByVehicle' = addTicketToIndex(activeTicketsByVehicle, ticket)
                /\ result' = [result EXCEPT ![t] = TicketResult(ticketId)]
    /\ pc' = [pc EXCEPT ![t] = "service:unlock"]
    /\ UNCHANGED << spots, rates, mutex, spotMutex, holds, call, frame, allocLog, observed >>

\* a runExclusive without a finally: a callback that throws keeps the lock
ServiceUnlock_ThrowKeepsLock(t) ==
    /\ pc[t] = "service:unlock"
    /\ IF result[t].kind = "error"
       THEN UNCHANGED << mutex, holds >>
       ELSE /\ mutex' = MutexRelease(mutex)
            /\ holds' = HoldsAfterRelease(holds, mutex, "service", t)
    /\ pc' = [pc EXCEPT ![t] = "idle"]
    /\ call' = [call EXCEPT ![t] = NoCall]
    /\ frame' = [frame EXCEPT ![t] = NoFrame]
    /\ result' = [result EXCEPT ![t] = NoResult]
    /\ UNCHANGED << spots, tickets, activeTicketsByVehicle, ticketCounter, rates, now,
                    spotMutex, allocLog, observed >>

\* the finally of the service's runExclusive: the lock is released and the
\* call returns result
ServiceUnlock(t) ==
    /\ pc[t] = "service:unlock"
    /\ mutex' = MutexRelease(mutex)
    /\ holds' = HoldsAfterRelease(holds, mutex, "service", t)
    /\ pc' = [pc EXCEPT ![t] = "idle"]
    /\ call' = [call EXCEPT ![t] = NoCall]
    /\ frame' = [frame EXCEPT ![t] = NoFrame]
    /\ result' = [result EXCEPT ![t] = NoResult]
    /\ UNCHANGED << spots, tickets, activeTicketsByVehicle, ticketCounter, rates, now,
                    spotMutex, allocLog, observed >>

\* ----------------------------------------------- ParkingLotService.checkOut
CallCheckOut(t, licensePlate) ==
    /\ pc[t] = "idle"
    /\ call' = [call EXCEPT ![t] = [NoCall EXCEPT !.op = "checkOutVehicle",
                                       !.licensePlate = licensePlate]]
    /\ mutex' = MutexAcquire(mutex, t)
    /\ holds' = HoldsAfterAcquire(holds, mutex, "service", t)
    /\ pc' = [pc EXCEPT ![t] = "checkOut:lock"]
    /\ frame' = [frame EXCEPT ![t] = NoFrame]
    /\ result' = [result EXCEPT ![t] = NoResult]
    /\ UNCHANGED << spots, tickets, activeTicketsByVehicle, ticketCounter, rates, now,
                    spotMutex, allocLog, observed >>

\* a checkOutVehicle that removes the index entry before it asks for the fee
CheckOutLocked_FeeAfterIndex(t) ==
    /\ pc[t] = "checkOut:lock"
    /\ "service" \in holds[t]
    /\ IF IsDefined(getActiveTicketByVehicle(activeTicketsByVehicle, call[t].licensePlate))
       THEN now' \in ClockReadings
       ELSE now' = now
    /\ LET found == getActiveTicketByVehicle(activeTicketsByVehicle, call[t].licensePlate)
           i == getTicket(tickets, found[1])
           ticket == tickets[i]
           exitTime == now'
           duration == getDuration(ticket, now')
           fee == calculateFee(rates, ticket.vehicle.type, duration)
           thrown == IF ~IsDefined(found) THEN "NoActiveSession"
                     ELSE IF calculateFeeThrows(rates, ticket.vehicle.type)
                     THEN "UnknownVehicleClass"
                     ELSE IF completeThrows(ticket) THEN "AlreadyCompleted"
                     ELSE ""
       IN  IF thrown # ""
           THEN /\ result' = [result EXCEPT ![t] = ErrorResult(thrown)]
                /\ pc' = [pc EXCEPT ![t] = "service:unlock"]
                /\ activeTicketsByVehicle' =
                       IF thrown = "UnknownVehicleClass"
                       THEN completeTicket(tickets, activeTicketsByVehicle, ticket.ticketId)
                       ELSE activeTicketsByVehicle
                /\ UNCHANGED << tickets, spotMutex, holds, frame >>
           ELSE /\ tickets' = [tickets EXCEPT ![i] = complete(ticket, exitTime, fee)]
                /\ activeTicketsByVehicle' =
                       completeTicket(tickets', activeTicketsByVehicle, ticket.ticketId)
                /\ frame' = [frame EXCEPT ![t] = [NoFrame EXCEPT !.ticket = found,
                                                                 !.spot = Def(ticket.spot)]]
                /\ spotMutex' = MutexAcquire(spotMutex, t)
                /\ holds' = HoldsAfterAcquire(holds, spotMutex, "spotManager", t)
                /\ pc' = [pc EXCEPT ![t] = "releaseSpot:lock"]
                /\ UNCHANGED result
    /\ UNCHANGED << spots, ticketCounter, rates, mutex, call, allocLog, observed >>

\* the callback of checkOutVehicle up to its await: lookup, fee, completion
\* of the ticket, removal from the index, then the call of releaseSpot
CheckOutLocked(t) ==
    /\ pc[t] = "checkOut:lock"
    /\ "service" \in holds[t]
    /\ IF IsDefined(getActiveTicketByVehicle(activeTicketsByVehicle, call[t].licensePlate))
       THEN now' \in ClockReadings
       ELSE now' = now
    /\ LET found == getActiveTicketByVehicle(activeTicketsByVehicle, call[t].licensePlate)
           i == getTicket(tickets, found[1])
           ticket == tickets[i]
           exitTime == now'
           duration == getDuration(ticket, now')
           fee == calculateFee(rates, ticket.vehicle.type, duration)
           thrown == IF ~IsDefined(found) THEN "NoActiveSession"
                     ELSE IF calculateFeeThrows(rates, ticket.vehicle.type)
                     THEN "UnknownVehicleClass"
                     ELSE IF completeThrows(ticket) THEN "AlreadyCompleted"
                     ELSE ""
       IN  IF thrown # ""
           THEN /\ result' = [result EXCEPT ![t] = ErrorResult(thrown)]
                /\ pc' = [pc EXCEPT ![t] = "service:unlock"]
                /\ UNCHANGED << tickets, activeTicketsByVehicle, spotMutex, holds, frame >>
           ELSE /\ tickets' = [tickets EXCEPT ![i] = complete(ticket, exitTime, fee)]
                /\ activeTicketsByVehicle' =
                       completeTicket(tickets', activeTicketsByVehicle, ticket.ticketId)
                /\ frame' = [frame EXCEPT ![t] = [NoFrame EXCEPT !.ticket = found,
                                                                 !.spot = Def(ticket.spot)]]
                /\ spotMutex' = MutexAcquire(spotMutex, t)
                /\ holds' = HoldsAfterAcquire(holds, spotMutex, "spotManager", t)
                /\ pc' = [pc EXCEPT ![t] = "releaseSpot:lock"]
                /\ UNCHANGED result
    /\ UNCHANGED << spots, ticketCounter, rates, mutex, call, allocLog, observed >>

\* the callback of checkOutVehicle after its await: the completed ticket
CheckOutReleased(t) ==
    /\ pc[t] = "checkOut:released"
    /\ result' = [result EXCEPT ![t] = IF frame[t].error # "" THEN ErrorResult(frame[t].error)
                                       ELSE TicketResult(frame[t].ticket[1])]
    /\ pc' = [pc EXCEPT ![t] = "service:unlock"]
    /\ UNCHANGED << spots, tickets, activeTicketsByVehicle, ticketCounter, rates, now,
                    mutex, spotMutex, holds, call, frame, allocLog, observed >>

\* -------------------------------------------- ParkingSpotManager operations
\* direct allocateSpot calls in flight that have not selected a spot yet
AllocationsInFlight == { t \in Tasks : pc[t] = "allocateSpot:lock" /\ call[t].op = "allocateSpot" }

\* allocateSpot(vehicleType, vehicleLicense) is called directly
CallAllocateSpot(t, vehicle) ==
    /\ pc[t] = "idle"
    /\ Len(allocLog) + Cardinality(AllocationsInFlight) < MaxAllocations
    /\ call' = [call EXCEPT ![t] = [NoCall EXCEPT !.op = "allocateSpot",
                                       !.licensePlate = vehicle.licensePlate,
                                       !.vehicleType = vehicle.type]]
    /\ spotMutex' = MutexAcquire(spotMutex, t)
    /\ holds' = HoldsAfterAcquire(holds, spotMutex, "spotManager", t)
    /\ pc' = [pc EXCEPT ![t] = "allocateSpot:lock"]
    /\ frame' = [frame EXCEPT ![t] = NoFrame]
    /\ result' = [result EXCEPT ![t] = NoResult]
    /\ UNCHANGED << spots, tickets, activeTicketsByVehicle, ticketCounter, rates, now,
                    mutex, allocLog, observed >>

\* the spot ids that callers pass to releaseSpot: those of the occupied spots,
\* and one that no initializeParkingLot issues
UnknownSpotId == << "X", "0" >>

SpotIdInputs ==
    { spots[k].id : k \in { i \in 1 .. Len(spots) : ~spots[i].isAvailable } }
       \cup { UnknownSpotId }

\* releaseSpot(spotId) is called directly
CallReleaseSpot(t, spotId) ==
    /\ pc[t] = "idle"
    /\ call' = [call EXCEPT ![t] = [NoCall EXCEPT !.op = "releaseSpot", !.spotId = spotId]]
    /\ spotMutex' = MutexAcquire(spotMutex, t)
    /\ holds' = HoldsAfterAcquire(holds, spotMutex, "spotManager", t)
    /\ pc' = [pc EXCEPT ![t] = "releaseSpot:lock"]
    /\ frame' = [frame EXCEPT ![t] = [NoFrame EXCEPT !.spot = Def(spotId)]]
    /\ result' = [result EXCEPT ![t] = NoResult]
    /\ UNCHANGED << spots, tickets, activeTicketsByVehicle, ticketCounter, rates, now,
                    mutex, allocLog, observed >>

\* the callback of allocateSpot: filter, sort, take the first, occupy it
AllocateSpotLocked(t) ==
    /\ pc[t] = "allocateSpot:lock"
    /\ "spotManager" \in holds[t]
    /\ LET availableSpots == CandidateSpots(spots, call[t].vehicleType)
           selectedSpot == availableSpots[1]
       IN  IF Len(availableSpots) = 0
           THEN /\ frame' = [frame EXCEPT ![t] = [@ EXCEPT !.spot = Undefined]]
                /\ UNCHANGED << spots, allocLog >>
           ELSE IF occupyThrows(selectedSpot)
           THEN /\ frame' = [frame EXCEPT ![t] = [@ EXCEPT !.error = "AlreadyOccupied"]]
                /\ UNCHANGED << spots, allocLog >>
           ELSE /\ spots' = [spots EXCEPT ![getSpot(spots, selectedSpot.id)] =
                                               occupy(selectedSpot, call[t].licensePlate)]
                /\ frame' = [frame EXCEPT ![t] = [@ EXCEPT !.spot = Def(selectedSpot.id)]]
                /\ allocLog' = Append(allocLog, [spotId |-> selectedSpot.id,
                                                  licensePlate |-> call[t].licensePlate,
                                                  vehicleType |-> call[t].vehicleType])
    /\ pc' = [pc EXCEPT ![t] = "allocateSpot:unlock"]
    /\ UNCHANGED << tickets, activeTicketsByVehicle, ticketCounter, rates, now, mutex,
                    spotMutex, holds, call, result, observed >>

\* a releaseSpot that refuses a spot that is available already
ReleaseSpotLocked_RejectsAvailable(t) ==
    /\ pc[t] = "releaseSpot:lock"
    /\ "spotManager" \in holds[t]
    /\ IF getSpot(spots, frame[t].spot[1]) = 0
       THEN /\ frame' = [frame EXCEPT ![t] = [@ EXCEPT !.error = "NotFound"]]
            /\ UNCHANGED spots
       ELSE IF spots[getSpot(spots, frame[t].spot[1])].isAvailable
       THEN /\ frame' = [frame EXCEPT ![t] = [@ EXCEPT !.error = "NotOccupied"]]
            /\ UNCHANGED spots
       ELSE /\ spots' = [spots EXCEPT ![getSpot(spots, frame[t].spot[1])] = release(@)]
            /\ UNCHANGED frame
    /\ pc' = [pc EXCEPT ![t] = "releaseSpot:unlock"]
    /\ UNCHANGED << tickets, activeTicketsByVehicle, ticketCounter, rates, now, mutex,
                    spotMutex, holds, call, result, allocLog, observed >>

\* a releaseSpot that returns silently when it does not find the spot
ReleaseSpotLocked_Silent(t) ==
    /\ pc[t] = "releaseSpot:lock"
    /\ "spotManager" \in holds[t]
    /\ IF getSpot(spots, frame[t].spot[1]) = 0
       THEN UNCHANGED << spots, frame >>
       ELSE /\ spots' = [spots EXCEPT ![getSpot(spots, frame[t].spot[1])] = release(@)]
            /\ UNCHANGED frame
    /\ pc' = [pc EXCEPT ![t] = "releaseSpot:unlock"]
    /\ UNCHANGED << tickets, activeTicketsByVehicle, ticketCounter, rates, now, mutex,
                    spotMutex, holds, call, result, allocLog, observed >>

\* the callback of releaseSpot: lookup, then release
ReleaseSpotLocked(t) ==
    /\ pc[t] = "releaseSpot:lock"
    /\ "spotManager" \in holds[t]
    /\ IF getSpot(spots, frame[t].spot[1]) = 0
       THEN /\ frame' = [frame EXCEPT ![t] = [@ EXCEPT !.error = "NotFound"]]
            /\ UNCHANGED spots
       ELSE /\ spots' = [spots EXCEPT ![getSpot(spots, frame[t].spot[1])] = release(@)]
            /\ UNCHANGED frame
    /\ pc' = [pc EXCEPT ![t] = "releaseSpot:unlock"]
    /\ UNCHANGED << tickets, activeTicketsByVehicle, ticketCounter, rates, now, mutex,
                    spotMutex, holds, call, result, allocLog, observed >>

\* the finally of the spot manager's runExclusive: the lock is released and
\* the awaiting caller resumes, or the direct call returns what frame holds
SpotManagerUnlock(t) ==
    /\ pc[t] \in {"allocateSpot:unlock", "releaseSpot:unlock"}
    /\ spotMutex' = MutexRelease(spotMutex)
    /\ holds' = HoldsAfterRelease(holds, spotMutex, "spotManager", t)
    /\ IF call[t].op = "checkInVehicle"
       THEN /\ pc' = [pc EXCEPT ![t] = "checkIn:allocated"]
            /\ UNCHANGED << call, frame, result >>
       ELSE IF call[t].op = "checkOutVehicle"
       THEN /\ pc' = [pc EXCEPT ![t] = "checkOut:released"]
            /\ UNCHANGED << call, frame, result >>
       ELSE /\ pc' = [pc EXCEPT ![t] = "idle"]
            /\ call' = [call EXCEPT ![t] = NoCall]
            /\ frame' = [frame EXCEPT ![t] = NoFrame]
            /\ UNCHANGED result
    /\ UNCHANGED << spots, tickets, activeTicketsByVehicle, ticketCounter, rates, now,
                    mutex, allocLog, observed >>

\* ----------------------------------------------------------- specifications
\* concurrent check-ins and check-outs on an initialized lot
Next ==
    \/ \E t \in Tasks, vehicle \in Vehicles : CallCheckIn(t, vehicle)
    \/ \E t \in Tasks : CheckInLocked(t)
    \/ \E t \in Tasks : CheckInAllocated(t)
    \/ \E t \in Tasks, licensePlate \in LicensePlates : CallCheckOut(t, licensePlate)
    \/ \E t \in Tasks : CheckOutLocked(t)
    \/ \E t \in Tasks : CheckOutReleased(t)
    \/ \E t \in Tasks : AllocateSpotLocked(t)
    \/ \E t \in Tasks : ReleaseSpotLocked(t)
    \/ \E t \in Tasks : SpotManagerUnlock(t)
    \/ \E t \in Tasks : ServiceUnlock(t)

Spec == Init /\ [][Next]_vars

\* concurrent direct calls of allocateSpot on an initialized lot
NextAllocate ==
    \/ \E t \in Tasks, vehicle \in Vehicles : CallAllocateSpot(t, vehicle)
    \/ \E t \in Tasks : AllocateSpotLocked(t)
    \/ \E t \in Tasks : SpotManagerUnlock(t)

SpecAllocate == InitAllocate /\ [][NextAllocate]_vars

\* ------------------------------------------------------------------- reads
\* everything but observed is as it was
ReadOnly ==
    UNCHANGED << spots, tickets, activeTicketsByVehicle, ticketCounter, rates, now, mutex,
                 spotMutex, holds, pc, call, frame, result, allocLog >>

\* getAvailability() is called and returns: it is synchronous and asks for no lock
GetAvailability ==
    /\ observed' = [NoObservation EXCEPT !.op = "getAvailability",
                                         !.availability = getAvailability(spots),
                                         !.locked = spotMutex.locked]
    /\ ReadOnly

\* hasAvailableSpot(vehicleType) is called and returns: synchronous, no lock
HasAvailableSpot(vehicleType) ==
    /\ observed' = [NoObservation EXCEPT !.op = "hasAvailableSpot",
                                         !.vehicleType = vehicleType,
                                         !.hasCapacity = hasAvailableSpot(spots, vehicleType),
                                         !.locked = spotMutex.locked]
    /\ ReadOnly

\* getActiveTickets() is called and returns: synchronous, no lock
GetActiveTickets ==
    /\ observed' = [NoObservation EXCEPT !.op = "getActiveTickets",
                                         !.tickets = getActiveTickets(tickets),
                                         !.locked = spotMutex.locked]
    /\ ReadOnly

\* the spot manager called directly: allocateSpot, releaseSpot and
\* getAvailability between their steps
NextManager ==
    \/ \E t \in Tasks, vehicle \in Vehicles : CallAllocateSpot(t, vehicle)
    \/ \E t \in Tasks, spotId \in SpotIdInputs : CallReleaseSpot(t, spotId)
    \/ \E t \in Tasks : AllocateSpotLocked(t)
    \/ \E t \in Tasks : ReleaseSpotLocked(t)
    \/ \E t \in Tasks : SpotManagerUnlock(t)
    \/ GetAvailability

SpecManager == Init /\ [][NextManager]_vars

\* the same calls with hasAvailableSpot between their steps
NextCapacity ==
    \/ \E t \in Tasks, vehicle \in Vehicles : CallAllocateSpot(t, vehicle)
    \/ \E t \in Tasks, spotId \in SpotIdInputs : CallReleaseSpot(t, spotId)
    \/ \E t \in Tasks : AllocateSpotLocked(t)
    \/ \E t \in Tasks : ReleaseSpotLocked(t)
    \/ \E t \in Tasks : SpotManagerUnlock(t)
    \/ \E vehicleType \in VehicleType : HasAvailableSpot(vehicleType)

SpecCapacity == Init /\ [][NextCapacity]_vars

\* the same calls with both reads between their steps, on a lot of one large
\* spot, for which every call contends
InitLocks ==
    InitLot({ [floors |-> 1, spotsPerFloor |-> [MOTORCYCLE |-> 0, COMPACT |-> 0, LARGE |-> 1]] })

NextLocks ==
    \/ \E t \in Tasks, vehicle \in Vehicles : CallAllocateSpot(t, vehicle)
    \/ \E t \in Tasks, spotId \in SpotIdInputs : CallReleaseSpot(t, spotId)
    \/ \E t \in Tasks : AllocateSpotLocked(t)
    \/ \E t \in Tasks : ReleaseSpotLocked(t)
    \/ \E t \in Tasks : SpotManagerUnlock(t)
    \/ GetAvailability
    \/ \E vehicleType \in VehicleType : HasAvailableSpot(vehicleType)

SpecLocks == InitLocks /\ [][NextLocks]_vars

\* check-ins and check-outs with the service's reads between their steps
NextObserve ==
    \/ \E t \in Tasks, vehicle \in Vehicles : CallCheckIn(t, vehicle)
    \/ \E t \in Tasks : CheckInLocked(t)
    \/ \E t \in Tasks : CheckInAllocated(t)
    \/ \E t \in Tasks, licensePlate \in LicensePlates : CallCheckOut(t, licensePlate)
    \/ \E t \in Tasks : CheckOutLocked(t)
    \/ \E t \in Tasks : CheckOutReleased(t)
    \/ \E t \in Tasks : AllocateSpotLocked(t)
    \/ \E t \in Tasks : ReleaseSpotLocked(t)
    \/ \E t \in Tasks : SpotManagerUnlock(t)
    \/ \E t \in Tasks : ServiceUnlock(t)
    \/ GetAvailability
    \/ GetActiveTickets

SpecObserve == Init /\ [][NextObserve]_vars

\* initializeParkingLot(floors, spotsPerFloor) is called on a service in use:
\* it takes no lock, numbers its spots from 1, sets them in the repository and
\* logs the total
InitializeParkingLot(cfg) ==
    /\ spots' = initializeParkingLot(spots, cfg.floors, cfg.spotsPerFloor)
    /\ observed' = [NoObservation EXCEPT !.op = "initializeParkingLot",
                                         !.config = Def(cfg),
                                         !.totalSpots = Len(getAllSpots(spots'))]
    /\ UNCHANGED << tickets, activeTicketsByVehicle, ticketCounter, rates, now, mutex,
                    spotMutex, holds, pc, call, frame, result, allocLog >>

\* check-ins on a lot that initializeParkingLot is called on again
NextInitialize ==
    \/ \E t \in Tasks, vehicle \in Vehicles : CallCheckIn(t, vehicle)
    \/ \E t \in Tasks : CheckInLocked(t)
    \/ \E t \in Tasks : CheckInAllocated(t)
    \/ \E t \in Tasks : AllocateSpotLocked(t)
    \/ \E t \in Tasks : SpotManagerUnlock(t)
    \/ \E t \in Tasks : ServiceUnlock(t)
    \/ \E cfg \in LotConfigs : InitializeParkingLot(cfg)

SpecInitialize == Init /\ [][NextInitialize]_vars

\* allocateSpot and releaseSpot called directly, releaseSpot with the id of
\* any spot of the lot, occupied or not
AllSpotIdInputs == { spots[k].id : k \in 1 .. Len(spots) } \cup { UnknownSpotId }

NextRelease ==
    \/ \E t \in Tasks, vehicle \in Vehicles : CallAllocateSpot(t, vehicle)
    \/ \E t \in Tasks, spotId \in AllSpotIdInputs : CallReleaseSpot(t, spotId)
    \/ \E t \in Tasks : AllocateSpotLocked(t)
    \/ \E t \in Tasks : ReleaseSpotLocked(t)
    \/ \E t \in Tasks : SpotManagerUnlock(t)

SpecRelease == Init /\ [][NextRelease]_vars

\* a rate table that registers no rate for cars
NoCarRates == [vt \in {"MOTORCYCLE", "BUS"} |-> DefaultRates[vt]]

\* the rate tables a FeeCalculator is constructed with
RateTables == { DefaultRates, NoCarRates }

\* the constructors with a rate table, then one initializeParkingLot call
InitRates(configs, tables) ==
    /\ \E cfg \in configs :
          spots = initializeParkingLot(<< >>, cfg.floors, cfg.spotsPerFloor)
    /\ tickets = << >>
    /\ activeTicketsByVehicle = [p \in {} |-> << >>]
    /\ ticketCounter = 1
    /\ rates \in tables
    /\ now = 0
    /\ mutex = Mutex
    /\ spotMutex = Mutex
    /\ holds = [t \in Tasks |-> {}]
    /\ pc = [t \in Tasks |-> "idle"]
    /\ call = [t \in Tasks |-> NoCall]
    /\ frame = [t \in Tasks |-> NoFrame]
    /\ result = [t \in Tasks |-> NoResult]
    /\ allocLog = << >>
    /\ observed = NoObservation

\* the lot of the runs that mix service and spot manager calls: one large spot
LiveLotConfigs ==
    { [floors |-> 1, spotsPerFloor |-> [MOTORCYCLE |-> 0, COMPACT |-> 0, LARGE |-> 1]] }

\* the vehicle of those runs: a car, which has a rate in one table only
LiveVehicles == { v \in Vehicles : v.type = "CAR" }

InitLive == InitRates(LiveLotConfigs, RateTables)

\* the continuation of the call of task t: the event loop runs every
\* continuation that is ready
Continue(t) ==
    \/ CheckInLocked(t)
    \/ CheckInAllocated(t)
    \/ CheckOutLocked(t)
    \/ CheckOutReleased(t)
    \/ AllocateSpotLocked(t)
    \/ ReleaseSpotLocked(t)
    \/ SpotManagerUnlock(t)
    \/ ServiceUnlock(t)

\* check-ins, check-outs and direct allocateSpot and releaseSpot calls, all
\* concurrent, under an event loop that leaves no ready continuation behind
NextLive ==
    \/ \E t \in Tasks, vehicle \in LiveVehicles : CallCheckIn(t, vehicle)
    \/ \E t \in Tasks, vehicle \in LiveVehicles : CallCheckOut(t, vehicle.licensePlate)
    \/ \E t \in Tasks, vehicle \in LiveVehicles : CallAllocateSpot(t, vehicle)
    \/ \E t \in Tasks, spotId \in SpotIdInputs : CallReleaseSpot(t, spotId)
    \/ \E t \in Tasks : CheckInLocked(t)
    \/ \E t \in Tasks : CheckInAllocated(t)
    \/ \E t \in Tasks : CheckOutLocked(t)
    \/ \E t \in Tasks : CheckOutReleased(t)
    \/ \E t \in Tasks : AllocateSpotLocked(t)
    \/ \E t \in Tasks : ReleaseSpotLocked(t)
    \/ \E t \in Tasks : SpotManagerUnlock(t)
    \/ \E t \in Tasks : ServiceUnlock(t)

SpecLive == InitLive /\ [][NextLive]_vars /\ \A t \in Tasks : WF_vars(Continue(t))

\* the same runs on a service whose clock has reached its latest reading and
\* reads the same from then on: what the clock reads decides no branch of a call
InitFair ==
    /\ \E cfg \in LiveLotConfigs :
          spots = initializeParkingLot(<< >>, cfg.floors, cfg.spotsPerFloor)
    /\ tickets = << >>
    /\ activeTicketsByVehicle = [p \in {} |-> << >>]
    /\ ticketCounter = 1
    /\ rates \in RateTables
    /\ now = MaxClock
    /\ mutex = Mutex
    /\ spotMutex = Mutex
    /\ holds = [t \in Tasks |-> {}]
    /\ pc = [t \in Tasks |-> "idle"]
    /\ call = [t \in Tasks |-> NoCall]
    /\ frame = [t \in Tasks |-> NoFrame]
    /\ result = [t \in Tasks |-> NoResult]
    /\ allocLog = << >>
    /\ observed = NoObservation

SpecFair == InitFair /\ [][NextLive]_vars /\ \A t \in Tasks : WF_vars(Continue(t))

\* every exposed operation on one lot of one large spot, which every vehicle
\* fits: check-ins and check-outs of the service, and allocateSpot and
\* releaseSpot called on the spot manager directly
InitExposed == InitLot(LiveLotConfigs)

NextExposed ==
    \/ \E t \in Tasks, vehicle \in Vehicles : CallCheckIn(t, vehicle)
    \/ \E t \in Tasks, licensePlate \in LicensePlates : CallCheckOut(t, licensePlate)
    \/ \E t \in Tasks, vehicle \in Vehicles : CallAllocateSpot(t, vehicle)
    \/ \E t \in Tasks, spotId \in SpotIdInputs : CallReleaseSpot(t, spotId)
    \/ \E t \in Tasks : CheckInLocked(t)
    \/ \E t \in Tasks : CheckInAllocated(t)
    \/ \E t \in Tasks : CheckOutLocked(t)
    \/ \E t \in Tasks : CheckOutReleased(t)
    \/ \E t \in Tasks : AllocateSpotLocked(t)
    \/ \E t \in Tasks : ReleaseSpotLocked(t)
    \/ \E t \in Tasks : SpotManagerUnlock(t)
    \/ \E t \in Tasks : ServiceUnlock(t)

SpecExposed == InitExposed /\ [][NextExposed]_vars

\* ------------------------------------------------ FeeCalculator called alone
\* the durations calculateFee is given: whole hours from one hour before the
\* entry to MaxFeeHours after it, each also one millisecond, half an hour and
\* an hour less a millisecond later
HalfHourMs == MsPerHour \div 2

Durations ==
    { (h * MsPerHour) + e : h \in -1 .. MaxFeeHours, e \in {0, 1, HalfHourMs, MsPerHour - 1} }

\* calculateFee(vehicleType, durationHours) is called on the calculator; the
\* caller gets the fee or the error thrown
CalculateFee(vehicleType, durationMs) ==
    /\ observed' =
          IF calculateFeeThrows(rates, vehicleType)
          THEN [NoObservation EXCEPT !.op = "calculateFee", !.vehicleType = vehicleType,
                                     !.durationMs = durationMs,
                                     !.error = "UnknownVehicleClass"]
          ELSE [NoObservation EXCEPT !.op = "calculateFee", !.vehicleType = vehicleType,
                                     !.durationMs = durationMs,
                                     !.fee = Def(calculateFee(rates, vehicleType, durationMs))]
    /\ ReadOnly

InitFee == InitRates(LiveLotConfigs, RateTables)

NextFee == \E vehicleType \in VehicleType, durationMs \in Durations :
              CalculateFee(vehicleType, durationMs)

SpecFee == InitFee /\ [][NextFee]_vars

\* ---------------------------------------------------- vocabulary of the claims
\* the compatibility table: which vehicle classes a capacity class hosts
Fits(spotType, vehicleType) ==
    \/ spotType = "MOTORCYCLE" /\ vehicleType = "MOTORCYCLE"
    \/ spotType = "COMPACT" /\ vehicleType \in {"MOTORCYCLE", "CAR"}
    \/ spotType = "LARGE" /\ vehicleType \in {"MOTORCYCLE", "CAR", "BUS"}

SpotIndexes == 1 .. Len(spots)

TicketIndexes == 1 .. Len(tickets)

\* the spots with the given id (one, in a lot initialized once)
SpotsWithId(id) == { k \in SpotIndexes : spots[k].id = id }

\* the available spots that fit a vehicle class
AvailableFitting(vehicleType) ==
    { k \in SpotIndexes : spots[k].isAvailable /\ Fits(spots[k].spotType, vehicleType) }

\* the active sessions of a vehicle
ActiveSessions(licensePlate) ==
    { i \in TicketIndexes :
        tickets[i].vehicle.licensePlate = licensePlate /\ tickets[i].exitTime = << >> }

\* task t takes a step from position from to position to
Moves(t, from, to) == pc[t] = from /\ pc'[t] = to

\* ------------------------------------------------------------------ claims
\* C1: concurrent allocateSpot calls never select the same spot twice, no more
\* calls for a vehicle class get a spot than there are spots that fit the
\* class, and every selected spot is occupied by the vehicle it was selected for.
C1_UniqueAllocation ==
    /\ \A i, j \in 1 .. Len(allocLog) :
          i # j => allocLog[i].spotId # allocLog[j].spotId
    /\ \A vt \in VehicleType :
          Cardinality({ i \in 1 .. Len(allocLog) : allocLog[i].vehicleType = vt })
             <= Cardinality({ k \in SpotIndexes : Fits(spots[k].spotType, vt) })
    /\ \A i \in 1 .. Len(allocLog) :
          \A k \in SpotsWithId(allocLog[i].spotId) :
             /\ ~spots[k].isAvailable
             /\ spots[k].currentVehicleLicense = << allocLog[i].licensePlate >>
    /\ \A t \in Tasks :
          frame[t].spot # << >> => \E i \in 1 .. Len(allocLog) : allocLog[i].spotId = frame[t].spot[1]

\* C1 witness: one call has been given the last spot that fits while another
\* call, for a vehicle the spot would fit, waits in the queue of the mutex
C1_Witness ==
    \E t, u \in Tasks :
       /\ t # u
       /\ pc[t] = "allocateSpot:unlock" /\ frame[t].spot # << >>
       /\ pc[u] = "allocateSpot:lock" /\ spotMutex.queue = << u >>
       /\ AvailableFitting(call[u].vehicleType) = {}
       /\ \E k \in SpotsWithId(frame[t].spot[1]) : Fits(spots[k].spotType, call[u].vehicleType)

\* C2: every vehicle has at most one active session, and the index names it
C2_OneActiveSession ==
    \A licensePlate \in LicensePlates :
       /\ Cardinality(ActiveSessions(licensePlate)) <= 1
       /\ \A i \in ActiveSessions(licensePlate) :
             /\ licensePlate \in DOMAIN activeTicketsByVehicle
             /\ activeTicketsByVehicle[licensePlate] = tickets[i].ticketId

\* C2 witness: two check-ins of one vehicle are in flight, the first has its
\* ticket and still holds the lock, the second waits for the lock
C2_Witness ==
    \E t, u \in Tasks :
       /\ t # u
       /\ call[t].op = "checkInVehicle" /\ call[u].op = "checkInVehicle"
       /\ call[t].licensePlate = call[u].licensePlate
       /\ pc[t] = "service:unlock" /\ result[t].kind = "ticket"
       /\ pc[u] = "checkIn:lock" /\ mutex.queue = << u >>

\* C4: every spot allocateSpot selected, every spot a ticket was issued for and
\* every occupied spot is of a capacity class that fits the vehicle's class
C4_Compatibility ==
    /\ \A i \in 1 .. Len(allocLog) :
          \A k \in SpotsWithId(allocLog[i].spotId) :
             Fits(spots[k].spotType, allocLog[i].vehicleType)
    /\ \A i \in TicketIndexes :
          \A k \in SpotsWithId(tickets[i].spot) :
             Fits(spots[k].spotType, tickets[i].vehicle.type)
    /\ \A k \in SpotIndexes :
          ~spots[k].isAvailable =>
             \E v \in Vehicles :
                /\ spots[k].currentVehicleLicense = << v.licensePlate >>
                /\ Fits(spots[k].spotType, v.type)

\* C4 witness: a car is parked on the second floor while the motorcycle spot
\* of the first floor is available
C4_Witness ==
    \E i \in TicketIndexes, k, m \in SpotIndexes :
       /\ tickets[i].exitTime = << >> /\ tickets[i].vehicle.type = "CAR"
       /\ spots[k].id = tickets[i].spot /\ spots[k].floor = 2
       /\ spots[m].floor = 1 /\ spots[m].spotType = "MOTORCYCLE" /\ spots[m].isAvailable

\* C8: every session is active (no exit time, no fee) or completed (both set)
C8_ActiveOrCompleted ==
    \A i \in TicketIndexes :
       \/ tickets[i].exitTime = << >> /\ tickets[i].fee = << >>
       \/ tickets[i].exitTime # << >> /\ tickets[i].fee # << >>

\* C8 witness: a completed session and an active session exist
C8_Witness ==
    \E i, j \in TicketIndexes :
       /\ tickets[i].exitTime # << >> /\ tickets[i].fee # << >>
       /\ tickets[j].exitTime = << >> /\ tickets[j].fee = << >>

\* the repository and the ticket counter are as they were
DataUnchanged == UNCHANGED << spots, tickets, activeTicketsByVehicle, ticketCounter >>

\* C3: a check-in of a vehicle that has an active session fails with
\* AlreadyParked without calling allocateSpot, and neither that step nor the
\* return of the call changes a spot, a session, the index or the ticket counter
C3_AlreadyParkedStep ==
    \A t \in Tasks :
       /\ (pc[t] = "checkIn:lock" /\ pc'[t] # "checkIn:lock"
             /\ ActiveSessions(call[t].licensePlate) # {})
          => /\ pc'[t] = "service:unlock"
             /\ result'[t].kind = "error" /\ result'[t].error = "AlreadyParked"
             /\ DataUnchanged
             /\ UNCHANGED << spotMutex, allocLog >>
       /\ (pc[t] = "service:unlock" /\ pc'[t] # "service:unlock"
             /\ result[t].error = "AlreadyParked")
          => DataUnchanged

C3_AlreadyParked == [][C3_AlreadyParkedStep]_vars

\* C3 witness: a check-in has failed with AlreadyParked
C3_Witness ==
    \E t \in Tasks :
       /\ call[t].op = "checkInVehicle" /\ pc[t] = "service:unlock"
       /\ result[t].kind = "error" /\ result[t].error = "AlreadyParked"
       /\ ActiveSessions(call[t].licensePlate) # {}

\* code points of the characters of identifiers
CharCode(c) ==
    CASE c = "0" -> 48 [] c = "1" -> 49 [] c = "2" -> 50 [] c = "3" -> 51 [] c = "4" -> 52
      [] c = "5" -> 53 [] c = "6" -> 54 [] c = "7" -> 55 [] c = "8" -> 56 [] c = "9" -> 57
      [] c = "C" -> 67 [] c = "L" -> 76 [] c = "M" -> 77 [] c = "T" -> 84

\* a is before b as a string
StringBefore(a, b) ==
    \E n \in 0 .. Len(a) :
       /\ n <= Len(b)
       /\ \A i \in 1 .. n : a[i] = b[i]
       /\ \/ n = Len(a) /\ n < Len(b)
          \/ n < Len(a) /\ n < Len(b) /\ CharCode(a[n + 1]) < CharCode(b[n + 1])

\* spot k is the first of the available spots that fit, by floor, then by id
FirstFitting(k, vehicleType) ==
    /\ k \in AvailableFitting(vehicleType)
    /\ \A j \in AvailableFitting(vehicleType) \ {k} :
          \/ spots[k].floor < spots[j].floor
          \/ spots[k].floor = spots[j].floor /\ StringBefore(spots[k].id, spots[j].id)

\* C5: when an available spot fits, allocateSpot returns the first of them by
\* (floor, id as a string) whatever its capacity class, and marks that spot
\* and no other as occupied by the vehicle
C5_FirstSpotStep ==
    \A t \in Tasks :
       (Moves(t, "allocateSpot:lock", "allocateSpot:unlock")
          /\ AvailableFitting(call[t].vehicleType) # {})
       => \E k \in SpotIndexes :
             /\ FirstFitting(k, call[t].vehicleType)
             /\ frame'[t].spot = << spots[k].id >> /\ frame'[t].error = ""
             /\ spots' = [spots EXCEPT ![k] = [@ EXCEPT !.isAvailable = FALSE,
                                                        !.currentVehicleLicense =
                                                           << call[t].licensePlate >>]]

C5_FirstSpot == [][C5_FirstSpotStep]_vars

\* C5 witness: L10 was allocated while L9, on the same floor, is available,
\* and a compact spot hosts the motorcycle while the motorcycle spot is available
C5_Witness ==
    \E k, m, c, n \in SpotIndexes :
       /\ spots[k].id = << "L", "1", "0" >> /\ ~spots[k].isAvailable
       /\ spots[m].id = << "L", "9" >> /\ spots[m].isAvailable
       /\ spots[c].spotType = "COMPACT" /\ spots[c].currentVehicleLicense = << "MC-001" >>
       /\ spots[n].spotType = "MOTORCYCLE" /\ spots[n].isAvailable

\* the session with the given ticket id
SessionsWithId(ticketId) == { i \in TicketIndexes : tickets[i].ticketId = ticketId }

\* C6, at the return of a check-out: the session returned is completed, its
\* spot is available with no occupant, and its vehicle has no active session
C6_AtReturn ==
    \A t \in Tasks :
       (call[t].op = "checkOutVehicle" /\ pc[t] = "service:unlock" /\ result[t].kind = "ticket")
       => /\ SessionsWithId(result[t].ticketId) # {}
          /\ \A i \in SessionsWithId(result[t].ticketId) :
                /\ tickets[i].vehicle.licensePlate = call[t].licensePlate
                /\ tickets[i].exitTime # << >> /\ tickets[i].fee # << >>
                /\ SpotsWithId(tickets[i].spot) # {}
                /\ \A k \in SpotsWithId(tickets[i].spot) :
                      spots[k].isAvailable /\ spots[k].currentVehicleLicense = << >>
          /\ ActiveSessions(call[t].licensePlate) = {}
          /\ call[t].licensePlate \notin DOMAIN activeTicketsByVehicle

\* C6, the steps: a check-out of a vehicle with an active session completes
\* that session and goes on to return it; a check-in of a vehicle with no
\* active session is accepted
C6_Step ==
    \A t \in Tasks :
       /\ (pc[t] = "checkOut:lock" /\ pc'[t] # "checkOut:lock"
             /\ ActiveSessions(call[t].licensePlate) # {})
          => /\ pc'[t] = "releaseSpot:lock"
             /\ \A i \in ActiveSessions(call[t].licensePlate) :
                   frame'[t].ticket = << tickets[i].ticketId >>
       /\ (pc[t] = "checkOut:released" /\ pc'[t] # "checkOut:released")
          => /\ result'[t].kind = "ticket"
             /\ << result'[t].ticketId >> = frame[t].ticket
       /\ (pc[t] = "checkIn:lock" /\ pc'[t] # "checkIn:lock"
             /\ ActiveSessions(call[t].licensePlate) = {})
          => pc'[t] = "allocateSpot:lock"

\* C6: check-in, then check-out, returns the same session completed, frees
\* the spot and lets the vehicle check in again
C6_RoundTrip == []C6_AtReturn /\ [][C6_Step]_vars

\* C6 witness: a vehicle has a completed session and, after it, an active one
C6_Witness ==
    \E i, j \in TicketIndexes :
       /\ i < j
       /\ tickets[i].vehicle.licensePlate = tickets[j].vehicle.licensePlate
       /\ tickets[i].exitTime # << >> /\ tickets[i].fee # << >>
       /\ tickets[j].exitTime = << >>

\* C7: allocateSpot called by a check-in returns null exactly when no
\* available spot fits; the check-in then returns null and no error; and
\* neither step changes a spot, a session, the index or the ticket counter
C7_NoneStep ==
    \A t \in Tasks :
       /\ (Moves(t, "allocateSpot:lock", "allocateSpot:unlock")
             /\ call[t].op = "checkInVehicle")
          => /\ frame'[t].error = ""
             /\ (frame'[t].spot = << >>) <=> (AvailableFitting(call[t].vehicleType) = {})
             /\ frame'[t].spot = << >> => DataUnchanged
       /\ Moves(t, "checkIn:allocated", "service:unlock")
          => /\ (result'[t].kind = "null") <=> (frame[t].spot = << >>)
             /\ (result'[t].kind = "ticket") <=> (frame[t].spot # << >>)
             /\ result'[t].kind = "null" => DataUnchanged
       /\ (pc[t] = "service:unlock" /\ pc'[t] # "service:unlock" /\ result[t].kind = "null")
          => DataUnchanged

C7_NoneWhenFull == [][C7_NoneStep]_vars

\* C7 witness: a check-in returned null because the only spot that fits its
\* vehicle is occupied by another vehicle
C7_Witness ==
    \E t \in Tasks :
       /\ call[t].op = "checkInVehicle" /\ pc[t] = "service:unlock"
       /\ result[t].kind = "null"
       /\ Len(spots) = 1
       /\ Fits(spots[1].spotType, call[t].vehicleType)
       /\ ~spots[1].isAvailable
       /\ spots[1].currentVehicleLicense # << call[t].licensePlate >>

\* C9, in every state: no call has failed with AlreadyCompleted
C9_NeverAlreadyCompleted ==
    \A t \in Tasks : result[t].error # "AlreadyCompleted" /\ frame[t].error # "AlreadyCompleted"

\* C9, the steps: a completed session never changes; a session is completed
\* only by the step of a check-out of its vehicle, which goes on to release
\* its spot; a check-out of a vehicle with no active session fails with
\* NoActiveSession and changes nothing; releaseSpot releases a spot that the
\* vehicle occupies, and a spot becomes available only so
C9_Step ==
    /\ Len(tickets') >= Len(tickets)
    /\ \A i \in TicketIndexes :
          /\ tickets[i].exitTime # << >> => tickets'[i] = tickets[i]
          /\ (tickets[i].exitTime = << >> /\ tickets'[i].exitTime # << >>)
             => \E t \in Tasks :
                   /\ Moves(t, "checkOut:lock", "releaseSpot:lock")
                   /\ call[t].licensePlate = tickets[i].vehicle.licensePlate
                   /\ frame'[t].ticket = << tickets[i].ticketId >>
                   /\ frame'[t].spot = << tickets[i].spot >>
    /\ \A t \in Tasks :
          /\ (pc[t] = "checkOut:lock" /\ pc'[t] # "checkOut:lock"
                /\ ActiveSessions(call[t].licensePlate) = {})
             => /\ pc'[t] = "service:unlock"
                /\ result'[t].kind = "error" /\ result'[t].error = "NoActiveSession"
                /\ DataUnchanged
          /\ (pc[t] = "releaseSpot:lock" /\ pc'[t] # "releaseSpot:lock")
             => /\ frame'[t].error = ""
                /\ \E k \in SpotIndexes :
                      /\ << spots[k].id >> = frame[t].spot
                      /\ ~spots[k].isAvailable
                      /\ spots[k].currentVehicleLicense = << call[t].licensePlate >>
                      /\ spots' = [spots EXCEPT ![k] = [@ EXCEPT !.isAvailable = TRUE,
                                                                 !.currentVehicleLicense = << >>]]
    /\ \A k \in SpotIndexes :
          (~spots[k].isAvailable /\ spots'[k].isAvailable)
          => \E t \in Tasks :
                Moves(t, "releaseSpot:lock", "releaseSpot:unlock") /\ frame[t].spot = << spots[k].id >>

\* C9: a session is completed exactly once, by one check-out; the others fail
\* with NoActiveSession, never with AlreadyCompleted; its spot is released once
C9_CompletedOnce == []C9_NeverAlreadyCompleted /\ [][C9_Step]_vars

\* C9 witness: of two check-outs of one vehicle in flight, one has completed
\* the session and still holds the lock, the other waits for the lock
C9_Witness ==
    \E t, u \in Tasks :
       /\ t # u
       /\ call[t].op = "checkOutVehicle" /\ call[u].op = "checkOutVehicle"
       /\ call[t].licensePlate = call[u].licensePlate
       /\ pc[t] = "service:unlock" /\ result[t].kind = "ticket"
       /\ pc[u] = "checkOut:lock" /\ mutex.queue = << u >>

\* t waits in the queue of mutex m
Queued(m, t) == \E i \in 1 .. Len(m.queue) : m.queue[i] = t

\* C10, in every state: each lock has at most one holder and is locked exactly
\* when it has one; a check-in or check-out past its wait for the service
\* lock holds it until it returns, so it holds it whenever it waits for or
\* holds the spot manager's lock; a task waiting for the service lock holds
\* no lock and waits for no other
C10_LockState ==
    /\ \A name \in {"service", "spotManager"} :
          Cardinality({ t \in Tasks : name \in holds[t] }) <= 1
    /\ mutex.locked <=> (\E t \in Tasks : "service" \in holds[t])
    /\ spotMutex.locked <=> (\E t \in Tasks : "spotManager" \in holds[t])
    /\ \A t \in Tasks :
          /\ (call[t].op \in {"checkInVehicle", "checkOutVehicle"} /\ pc[t] # "idle")
             => ("service" \in holds[t]) # Queued(mutex, t)
          /\ (call[t].op \in {"checkInVehicle", "checkOutVehicle"}
                /\ ("spotManager" \in holds[t] \/ Queued(spotMutex, t)))
             => "service" \in holds[t]
          /\ Queued(mutex, t) => (holds[t] = {} /\ ~Queued(spotMutex, t))
          /\ pc[t] = "idle" => (holds[t] = {} /\ ~Queued(mutex, t) /\ ~Queued(spotMutex, t))

\* C10, the steps: the service lock is asked for by a task that holds no lock,
\* and given up only by the return of the call
C10_Step ==
    \A t \in Tasks :
       /\ ((~Queued(mutex, t) /\ "service" \notin holds[t])
             /\ (Queued(mutex', t) \/ "service" \in holds'[t]))
          => (holds[t] = {} /\ ~Queued(spotMutex, t))
       /\ ("service" \in holds[t] /\ "service" \notin holds'[t])
          => (Moves(t, "service:unlock", "idle") /\ holds[t] = {"service"})

\* C10: the locks are taken in the order service, then spot manager
C10_LockOrder == []C10_LockState /\ [][C10_Step]_vars

\* C10 witness: a task holds both locks while another waits for the service lock
C10_Witness ==
    \E t, u \in Tasks :
       /\ holds[t] = {"service", "spotManager"}
       /\ Queued(mutex, u)

\* C11, in every state: when no call is in flight both locks are free and
\* nobody waits for them; a task in a call holds a lock, waits for one, or is
\* about to return
C11_LocksFree ==
    /\ (\A t \in Tasks : pc[t] = "idle")
       => (mutex = Mutex /\ spotMutex = Mutex /\ \A t \in Tasks : holds[t] = {})
    /\ \A t \in Tasks :
          pc[t] = "idle" => (holds[t] = {} /\ ~Queued(mutex, t) /\ ~Queued(spotMutex, t))

\* C11: every call that was made returns, whatever it returns or throws, and
\* once all have returned the locks are free
C11_RunToCompletion ==
    /\ []C11_LocksFree
    /\ \A t \in Tasks : (pc[t] # "idle") ~> (pc[t] = "idle")

\* C11 witness: a check-out has failed for want of a rate and still holds the
\* service lock, for which another call waits
C11_Witness ==
    \E t, u \in Tasks :
       /\ pc[t] = "service:unlock" /\ result[t].error = "UnknownVehicleClass"
       /\ Queued(mutex, u)

C12_LockState ==
    /\ Cardinality({ t \in Tasks : "spotManager" \in holds[t] }) <= 1
    /\ spotMutex.locked <=> (\E t \in Tasks : "spotManager" \in holds[t])
    /\ \A t \in Tasks :
          /\ pc[t] \in {"allocateSpot:lock", "releaseSpot:lock"}
             => ("spotManager" \in holds[t]) # Queued(spotMutex, t)
          /\ pc[t] \in {"allocateSpot:unlock", "releaseSpot:unlock"}
             => "spotManager" \in holds[t]

\* C12 amended, the steps: a spot changes only in the callback of the task
\* that holds the lock; a read changes nothing and asks for no lock
C12_Step ==
    /\ spots' # spots
       => \E t \in Tasks :
             /\ "spotManager" \in holds[t] /\ "spotManager" \in holds'[t]
             /\ \/ Moves(t, "allocateSpot:lock", "allocateSpot:unlock")
                \/ Moves(t, "releaseSpot:lock", "releaseSpot:unlock")
    /\ observed' # observed => ReadOnly

SpotsMatchSessions ==
    \A k \in SpotIndexes :
       (~spots[k].isAvailable)
          <=> (\E i \in TicketIndexes : tickets[i].exitTime = << >> /\ tickets[i].spot = spots[k].id)

\* C13 as stated: whenever getAvailability or getActiveTickets runs, a spot
\* is occupied exactly when an active session references it
C13_NoPartialState == [][observed' # observed => SpotsMatchSessions]_vars

\* C13 witness: getActiveTickets returned no session while a check-in that
\* has been given its spot waits to create its ticket
C13_Witness ==
    /\ observed.op = "getActiveTickets" /\ observed.tickets = << >>
    /\ \E t \in Tasks :
          /\ pc[t] = "checkIn:allocated" /\ frame[t].spot # << >>
          /\ \E k \in SpotsWithId(frame[t].spot[1]) : ~spots[k].isAvailable
    /\ tickets = << >>

\* the spots of a floor and capacity class
SpotGroup(floor, spotType) ==
    { k \in SpotIndexes : spots[k].floor = floor /\ spots[k].spotType = spotType }

\* the labels of the capacity classes
ClassLabel(spotType) ==
    CASE spotType = "COMPACT" -> << "C", "O", "M", "P", "A", "C", "T" >>
      [] spotType = "LARGE" -> << "L", "A", "R", "G", "E" >>
      [] spotType = "MOTORCYCLE" -> << "M", "O", "T", "O", "R", "C", "Y", "C", "L", "E" >>

\* summary is the snapshot of the spots as they are
IsSnapshot(summary) ==
    /\ \A k \in SpotIndexes :
          \E i \in 1 .. Len(summary) :
             summary[i].floor = spots[k].floor /\ summary[i].spotType = spots[k].spotType
    /\ \A i \in 1 .. Len(summary) :
          LET group == SpotGroup(summary[i].floor, summary[i].spotType)
          IN  /\ group # {}
              /\ summary[i].total = Cardinality(group)
              /\ summary[i].available = Cardinality({ k \in group : spots[k].isAvailable })
              /\ 0 <= summary[i].available /\ summary[i].available <= summary[i].total
    /\ \A i, j \in 1 .. Len(summary) :
          i < j => \/ summary[i].floor < summary[j].floor
                   \/ /\ summary[i].floor = summary[j].floor
                      /\ StringBefore(ClassLabel(summary[i].spotType),
                                      ClassLabel(summary[j].spotType))

\* C14: what getAvailability returns is the snapshot of the spots as they
\* are: one entry per floor and capacity class that has spots, with the
\* number of its spots and of its available spots, by floor, then by label;
\* the call changes nothing, and it returns what the call before it returned
\* when that still describes the spots
C14_SnapshotStep ==
    (observed' # observed /\ observed'.op = "getAvailability")
    => /\ IsSnapshot(observed'.availability)
       /\ ReadOnly
       /\ (observed.op = "getAvailability" /\ IsSnapshot(observed.availability))
          => observed'.availability = observed.availability

C14_Snapshot == [][C14_SnapshotStep]_vars

\* C14 witness: a snapshot of two floors of two classes each, one of them
\* with no spot available, taken while the lock was held
C14_Witness ==
    /\ observed.op = "getAvailability"
    /\ Len(observed.availability) = 4
    /\ \E i \in 1 .. 4 : observed.availability[i].available = 0
    /\ observed.locked

\* C15: hasAvailableSpot returns true exactly when an available spot fits
\* the vehicle class, and changes nothing; and the callback of allocateSpot
\* selects a spot exactly in the states where hasAvailableSpot is true
C15_HasCapacityStep ==
    /\ (observed' # observed /\ observed'.op = "hasAvailableSpot")
       => /\ observed'.hasCapacity <=> (AvailableFitting(observed'.vehicleType) # {})
          /\ ReadOnly
    /\ \A t \in Tasks :
          Moves(t, "allocateSpot:lock", "allocateSpot:unlock")
          => /\ frame'[t].error = ""
             /\ (frame'[t].spot # << >>) <=> hasAvailableSpot(spots, call[t].vehicleType)

C15_HasCapacity == [][C15_HasCapacityStep]_vars

\* C15 witness: hasAvailableSpot returned false for a bus while spots, none
\* of which fits a bus, were available
C15_Witness ==
    /\ observed.op = "hasAvailableSpot" /\ observed.vehicleType = "BUS"
    /\ ~observed.hasCapacity
    /\ \A k \in SpotIndexes : spots[k].isAvailable
    /\ Len(spots) > 1
    /\ allocLog = << >>

\* C16: a check-out of a vehicle without an active session fails with
\* NoActiveSession, a releaseSpot of an id no spot has fails with NotFound, and
\* neither the failing step nor the return of the failed call changes a spot, a
\* session, the index or the ticket counter
C16_NotFoundStep ==
    \A t \in Tasks :
       /\ (pc[t] = "checkOut:lock" /\ pc'[t] # "checkOut:lock"
             /\ ActiveSessions(call[t].licensePlate) = {})
          => /\ pc'[t] = "service:unlock"
             /\ result'[t] = ErrorResult("NoActiveSession")
             /\ DataUnchanged
       /\ (pc[t] = "releaseSpot:lock" /\ pc'[t] # "releaseSpot:lock"
             /\ call[t].op = "releaseSpot" /\ SpotsWithId(call[t].spotId) = {})
          => /\ pc'[t] = "releaseSpot:unlock"
             /\ frame'[t].error = "NotFound"
             /\ DataUnchanged
       /\ (pc'[t] # pc[t] /\ (result[t].error = "NoActiveSession" \/ frame[t].error = "NotFound"))
          => /\ pc'[t] = "idle"
             /\ DataUnchanged

C16_NotFound == [][C16_NotFoundStep]_vars

\* C16 witness: while the car is parked, one call has failed to release a
\* spot id the lot does not have and another has failed to check out a vehicle
\* that is not parked
C16_Witness ==
    \E t, u \in Tasks :
       /\ pc[t] = "releaseSpot:unlock" /\ call[t].spotId = UnknownSpotId
       /\ frame[t].error = "NotFound"
       /\ pc[u] = "service:unlock" /\ call[u].op = "checkOutVehicle"
       /\ result[u].error = "NoActiveSession"
       /\ \E k \in SpotIndexes : ~spots[k].isAvailable

\* the hours a stay of durationMs is charged for: the least whole number of
\* hours that covers it
ChargedHours(durationMs) ==
    CHOOSE h \in -2 .. (MaxFeeHours + 2) :
       /\ h * MsPerHour >= durationMs
       /\ (h - 1) * MsPerHour < durationMs

\* C17: for a vehicle class with a rate, calculateFee returns the base fee
\* when the stay rounds up to at most one hour (stays of no or negative length
\* included), and the base fee plus the hourly rate for every started hour
\* after the first otherwise; with the default rates a motorcycle parked for
\* half an hour pays 2.00
C17_FeeFormula ==
    (observed.op = "calculateFee" /\ observed.vehicleType \in DOMAIN rates)
    => /\ observed.error = ""
       /\ Len(observed.fee) = 1
       /\ LET h == ChargedHours(observed.durationMs)
              rate == rates[observed.vehicleType]
          IN  /\ h <= 1 => observed.fee[1] = rate.baseFee
              /\ h > 1 => observed.fee[1] = rate.baseFee + ((h - 1) * rate.hourlyRate)
              /\ observed.durationMs <= 0 => observed.fee[1] = rate.baseFee
       /\ (rates = DefaultRates /\ observed.vehicleType = "MOTORCYCLE"
             /\ 2 * observed.durationMs = MsPerHour)
          => observed.fee[1] = 200

\* C17 witness: with the default rates, calculateFee has priced a motorcycle
\* parked for half an hour
C17_Witness ==
    /\ rates = DefaultRates
    /\ observed.op = "calculateFee" /\ observed.vehicleType = "MOTORCYCLE"
    /\ 2 * observed.durationMs = MsPerHour
    /\ observed.fee = << 200 >>

\* the stay of the fee example: three hours and a half
C18_Stay == observed.op = "calculateFee" /\ 2 * observed.durationMs = 7 * MsPerHour

\* C18 as stated: with the default rates, a car parked for 3.5 hours pays 10.00
C18_CarFeeTen ==
    (rates = DefaultRates /\ C18_Stay /\ observed.vehicleType = "CAR")
    => observed.fee = << 1000 >>

\* C18: with the default rates, a car parked for 3.5 hours is charged for four
\* hours, the base fee and three further hours, and pays 12.50
C18_CarFee ==
    (rates = DefaultRates /\ C18_Stay /\ observed.vehicleType = "CAR")
    => /\ ChargedHours(observed.durationMs) = 4
       /\ observed.fee = << 500 + (3 * 250) >>
       /\ observed.fee = << 1250 >>

\* C18 witness: with the default rates, calculateFee has priced a car parked
\* for 3.5 hours
C18_Witness ==
    /\ rates = DefaultRates
    /\ C18_Stay /\ observed.vehicleType = "CAR"
    /\ observed.fee # << >>

\* the number a decimal string denotes
RECURSIVE DecimalValue(_)
DecimalValue(s) ==
    IF s = << >> THEN 0
    ELSE (10 * DecimalValue(SubSeq(s, 1, Len(s) - 1))) + (CharCode(s[Len(s)]) - CharCode("0"))

\* the counter value a ticket id carries after its T
TicketNumber(ticketId) == DecimalValue(Tail(ticketId))

\* the ticket ids are unique, their numbers grow in the order of creation and
\* lie below the counter, and getTicket finds each session under its id
C19_TicketIds ==
    /\ \A i, j \in TicketIndexes :
          i < j => /\ tickets[i].ticketId # tickets[j].ticketId
                   /\ TicketNumber(tickets[i].ticketId) < TicketNumber(tickets[j].ticketId)
    /\ \A i \in TicketIndexes :
          /\ Head(tickets[i].ticketId) = "T"
          /\ TicketNumber(tickets[i].ticketId) < ticketCounter
          /\ getTicket(tickets, tickets[i].ticketId) = i

\* no step deletes a session or changes whose it is, getTicket returns the
\* same session before and after, and a created session carries a number
\* greater than that of every session created before
C19_TicketStep ==
    /\ ticketCounter' >= ticketCounter
    /\ Len(tickets') >= Len(tickets)
    /\ \A i \in TicketIndexes :
          /\ getTicket(tickets', tickets[i].ticketId) = i
          /\ tickets'[i].ticketId = tickets[i].ticketId
          /\ tickets'[i].vehicle = tickets[i].vehicle
          /\ tickets'[i].spot = tickets[i].spot
          /\ tickets'[i].entryTime = tickets[i].entryTime
    /\ \A j \in (1 .. Len(tickets')) \ TicketIndexes :
          /\ tickets'[j].exitTime = << >>
          /\ TicketNumber(tickets'[j].ticketId) >= ticketCounter
          /\ ticketCounter' > ticketCounter
          /\ \A i \in TicketIndexes :
                TicketNumber(tickets'[j].ticketId) > TicketNumber(tickets[i].ticketId)

\* C19: ticket ids are unique and strictly increasing, and sessions are never
\* deleted: getTicket returns the same session for every id issued, also
\* after the check-out
C19_TicketsKept == []C19_TicketIds /\ [][C19_TicketStep]_vars

\* C19 witness: a vehicle has checked in, checked out and checked in again;
\* getTicket finds the completed session under the first id
C19_Witness ==
    /\ Len(tickets) = 2
    /\ tickets[1].vehicle = tickets[2].vehicle
    /\ tickets[1].exitTime # << >> /\ tickets[2].exitTime = << >>
    /\ getTicket(tickets, tickets[1].ticketId) = 1
    /\ TicketNumber(tickets[2].ticketId) = 2

\* the spots one initializeParkingLot call with configuration cfg creates
SpotsCreated(cfg) ==
    cfg.floors * (cfg.spotsPerFloor.MOTORCYCLE + cfg.spotsPerFloor.COMPACT
                    + cfg.spotsPerFloor.LARGE)

\* the step is a call of initializeParkingLot
C20_InitializeStep ==
    /\ observed'.op = "initializeParkingLot"
    /\ pc' = pc
    /\ observed' # observed \/ spots' # spots

\* C20: no initializeParkingLot call issues a spot id again: the call leaves
\* every spot of the repository as it was, occupied ones included, and the
\* repository holds the spots of all calls
C20_IdsNeverReissuedStep ==
    C20_InitializeStep
    => /\ \A k \in SpotIndexes : k <= Len(spots') /\ spots'[k] = spots[k]
       /\ Len(spots') = Len(spots) + SpotsCreated(observed'.config[1])
       /\ \A k, m \in 1 .. Len(spots') : k # m => spots'[k].id # spots'[m].id

C20_IdsNeverReissued == [][C20_IdsNeverReissuedStep]_vars

\* C20 witness: after a second initializeParkingLot the spot of an active
\* session is available
C20_Witness ==
    /\ observed.op = "initializeParkingLot"
    /\ \E i \in TicketIndexes, k \in SpotIndexes :
          /\ tickets[i].exitTime = << >>
          /\ spots[k].id = tickets[i].spot
          /\ spots[k].isAvailable

\* C21: a releaseSpot of a spot the lot has never fails; it leaves the spot
\* available without an occupant and every other spot as it was; on a spot
\* that is available already it changes nothing, and releasing the spot once
\* more after the step gives the state the step gave
C21_ReleaseStep ==
    \A t \in Tasks :
       (Moves(t, "releaseSpot:lock", "releaseSpot:unlock")
          /\ SpotsWithId(frame[t].spot[1]) # {})
       => /\ frame'[t].error = ""
          /\ Len(spots') = Len(spots)
          /\ \A k \in SpotIndexes :
                IF spots[k].id = frame[t].spot[1]
                THEN /\ spots'[k].isAvailable
                     /\ spots'[k].currentVehicleLicense = << >>
                     /\ spots'[k].id = spots[k].id
                     /\ spots'[k].floor = spots[k].floor
                     /\ spots'[k].spotType = spots[k].spotType
                     /\ spots[k].isAvailable => spots'[k] = spots[k]
                     /\ [spots' EXCEPT ![k] = release(@)] = spots'
                ELSE spots'[k] = spots[k]
          /\ UNCHANGED << tickets, activeTicketsByVehicle, ticketCounter >>

C21_ReleaseIdempotent == [][C21_ReleaseStep]_vars

\* C21 witness: releaseSpot has accepted a spot that no call has occupied, and
\* the spot is available without an occupant
C21_Witness ==
    \E t \in Tasks, k \in SpotIndexes :
       /\ pc[t] = "releaseSpot:unlock" /\ call[t].op = "releaseSpot"
       /\ frame[t].error = "" /\ spots[k].id = call[t].spotId
       /\ spots[k].isAvailable /\ spots[k].currentVehicleLicense = << >>
       /\ allocLog = << >>
       /\ Len(spots) > 1

\* no call is in flight
Quiescent == \A t \in Tasks : pc[t] = "idle"

\* the active sessions that reference the spot at position k
SessionsOnSpot(k) ==
    { i \in TicketIndexes : tickets[i].exitTime = << >> /\ tickets[i].spot = spots[k].id }

\* C22: whenever no check-in or check-out is in flight, a spot is occupied
\* exactly when one active session references it, its occupant is that
\* session's vehicle, no two active sessions reference one spot, and there are
\* as many occupied spots as active sessions
C22_QuiescentConsistency ==
    Quiescent
    => /\ \A k \in SpotIndexes :
             /\ (~spots[k].isAvailable) <=> (Cardinality(SessionsOnSpot(k)) = 1)
             /\ Cardinality(SessionsOnSpot(k)) <= 1
             /\ \A i \in SessionsOnSpot(k) :
                   spots[k].currentVehicleLicense = << tickets[i].vehicle.licensePlate >>
       /\ \A i \in TicketIndexes :
             tickets[i].exitTime = << >> => SpotsWithId(tickets[i].spot) # {}
       /\ Cardinality({ k \in SpotIndexes : ~spots[k].isAvailable })
             = Cardinality({ i \in TicketIndexes : tickets[i].exitTime = << >> })

\* C22 witness: all calls have returned; one vehicle has checked out, another
\* is parked, and a spot is available
C22_Witness ==
    /\ Quiescent
    /\ \E i, j \in TicketIndexes :
          /\ tickets[i].exitTime # << >> /\ tickets[j].exitTime = << >>
          /\ tickets[i].vehicle # tickets[j].vehicle
    /\ \E k, m \in SpotIndexes : spots[k].isAvailable /\ ~spots[m].isAvailable

\* the active session of the vehicle has a class without a rate
C23_NoRate(licensePlate) ==
    \E i \in ActiveSessions(licensePlate) : tickets[i].vehicle.type \notin DOMAIN rates

\* C23: a check-out of a parked vehicle whose class has no rate fails with
\* UnknownVehicleClass; the failing step and the return of the call leave the
\* session active without exit time or fee, the spots, the index entry and the
\* ticket counter as they were, and the return releases the service lock
C23_UnknownClassStep ==
    \A t \in Tasks :
       /\ (pc[t] = "checkOut:lock" /\ pc'[t] # "checkOut:lock"
             /\ C23_NoRate(call[t].licensePlate))
          => /\ pc'[t] = "service:unlock"
             /\ result'[t] = ErrorResult("UnknownVehicleClass")
             /\ DataUnchanged
             /\ \A i \in ActiveSessions(call[t].licensePlate) :
                   /\ tickets'[i].exitTime = << >> /\ tickets'[i].fee = << >>
                   /\ call[t].licensePlate \in DOMAIN activeTicketsByVehicle'
                   /\ activeTicketsByVehicle'[call[t].licensePlate] = tickets[i].ticketId
             /\ "spotManager" \notin holds'[t] /\ ~Queued(spotMutex', t)
       /\ (pc'[t] # pc[t] /\ result[t].error = "UnknownVehicleClass")
          => /\ pc'[t] = "idle"
             /\ DataUnchanged
             /\ "service" \in holds[t] /\ holds'[t] = {}
             /\ mutex'.locked <=> (\E u \in Tasks : "service" \in holds'[u])

C23_UnknownClass == [][C23_UnknownClassStep]_vars

\* C23 witness: the check-out of a parked car has failed for want of a rate;
\* the car's session is active, its spot occupied by it
C23_Witness ==
    \E t \in Tasks, i \in TicketIndexes, k \in SpotIndexes :
       /\ pc[t] = "service:unlock" /\ call[t].op = "checkOutVehicle"
       /\ result[t].error = "UnknownVehicleClass"
       /\ tickets[i].vehicle.licensePlate = call[t].licensePlate
       /\ tickets[i].exitTime = << >> /\ tickets[i].fee = << >>
       /\ spots[k].id = tickets[i].spot /\ ~spots[k].isAvailable
       /\ spots[k].currentVehicleLicense = << call[t].licensePlate >>
       /\ activeTicketsByVehicle[call[t].licensePlate] = tickets[i].ticketId

\* C24: no two active sessions reference the same spot, and no spot that an
\* active session references is available
C24_ExposedSafety ==
    /\ \A i, j \in TicketIndexes :
          (i # j /\ tickets[i].exitTime = << >> /\ tickets[j].exitTime = << >>)
          => tickets[i].spot # tickets[j].spot
    /\ \A i \in TicketIndexes :
          tickets[i].exitTime = << >>
          => \A k \in SpotsWithId(tickets[i].spot) : ~spots[k].isAvailable

\* C24 witness: two vehicles have active sessions for the same spot, which
\* records the second as its occupant
C24_Witness ==
    \E i, j \in TicketIndexes, k \in SpotIndexes :
       /\ i < j
       /\ tickets[i].exitTime = << >> /\ tickets[j].exitTime = << >>
       /\ tickets[i].spot = spots[k].id /\ tickets[j].spot = spots[k].id
       /\ spots[k].currentVehicleLicense = << tickets[j].vehicle.licensePlate >>
       /\ Quiescent

====
